---- MODULE Spec2Model ----
(***************************************************************************)
(* Model of homeassistant/components/ecovacs_mqtt/entity.py: the           *)
(* EcovacsEntity base class, which binds a deebot device and its event bus *)
(* to the entity lifecycle of the host framework.                          *)
(*                                                                         *)
(* Adapters are EcovacsEntity instances of one device.  The device event   *)
(* bus (device.events) and the host's on-remove list                       *)
(* (Entity.async_on_remove and the removal of an entity) are the two       *)
(* collaborators the class calls; they are modelled by their interface.    *)
(***************************************************************************)
EXTENDS Integers, Sequences, FiniteSets, TLC

(* ---------------------------------------------------------------- bounds *)
NumAdapters == 2
MaxSubscribe == 2
MaxDeliveries == 2

Adapters == 1..NumAdapters
Tokens == Adapters \X (1..MaxSubscribe)

None == "None"

AvailabilityEvent == "AvailabilityEvent"
BatteryEvent == "BatteryEvent"
EventTypes == {AvailabilityEvent, BatteryEvent}

(* Keys of the entity descriptions: one passed to __init__, one bound as a *)
(* class variable of the entity subclass.  The entity classes of Spec have *)
(* no class-level description; those of SpecIdentity may have one.         *)
PassedKey == "battery"
ClassKey == "state"

DOMAIN_ == "ecovacs_mqtt"
CONNECTION_NETWORK_MAC == "mac"

VARIABLES
    phase,               \* lifecycle of each adapter
    _always_available,   \* _always_available of the adapter's class
    entity_description,  \* key of self.entity_description, or None
    _device,             \* self._device: the device's did, or None
    _attr_unique_id,     \* self._attr_unique_id, or None
    _attr_available,     \* self._attr_available
    _subscribed_events,  \* EcovacsEntity._subscribed_events (class attribute)
    _on_remove,          \* the host's list of on-remove callbacks per adapter
    subscribers,         \* registrations held by the device's event bus
    issued,              \* the cancellation tokens the bus has returned
    token_calls,         \* how often each cancellation token was invoked
    own_calls,           \* per adapter and event type: _subscribe calls made
    ha_writes,           \* async_write_ha_state calls per adapter
    ha_state,            \* availability last written to the host per adapter
    callback_runs,       \* callback invocations per adapter
    delivered,           \* what the bus delivered to on_available per adapter
    at_detach,           \* the adapter's state when it was removed
    late_event,          \* an availability event was published after a removal
    refresh,             \* the request_refresh calls of the operation just run
    handle,              \* the fields of the device read by device_info
    info                 \* result of the last device_info read

vars == <<phase, _always_available, entity_description, _device,
          _attr_unique_id, _attr_available, _subscribed_events, _on_remove,
          subscribers, issued, token_calls, own_calls, ha_writes, ha_state,
          callback_runs, delivered, at_detach, late_event, refresh, handle,
          info>>

instvars == <<_always_available, entity_description, _device, _attr_unique_id>>
subvars == <<_subscribed_events, _on_remove, subscribers, issued, own_calls>>
hostvars == <<_attr_available, ha_writes, ha_state, callback_runs>>
ghostvars == <<delivered, at_detach, late_event>>
infovars == <<handle, info>>

(* ------------------------------------------------------------- helpers  *)
NoRefresh == [by |-> 0, requested |-> <<>>, raised |-> FALSE]

Unread == [unread |-> TRUE]

SampleHandle ==
    [did |-> "did1", fw_version |-> "1.2.0", name |-> "Robot1",
     nick |-> "Robby", deviceName |-> "DEEBOT", mac |-> "aa:bb"]

(* The device handles __init__ and device_info are given in SpecIdentity.  *)
Handles ==
    [did : {"did1", "did2"}, fw_version : {None, "1.2.0"},
     name : {"Robot1", "E0001"}, nick : {None, "", "Robby"},
     deviceName : {None, "DEEBOT"}, mac : {None, "aa:bb"}]

Occurrences(seq, x) == Cardinality({i \in DOMAIN seq : seq[i] = x})

RECURSIVE Sum(_, _)
Sum(f, S) ==
    IF S = {} THEN 0
    ELSE LET x == CHOOSE y \in S : TRUE IN f[x] + Sum(f, S \ {x})

(* ---------------------------------------------------------------- Init  *)
(* Class attributes and what the host and the bus hold before any call.    *)
InitShared ==
    /\ _attr_available = [a \in Adapters |-> TRUE]
    /\ _subscribed_events = {}
    /\ _on_remove = [a \in Adapters |-> <<>>]
    /\ subscribers = {}
    /\ issued = {}
    /\ token_calls = [k \in Tokens |-> 0]
    /\ own_calls = [a \in Adapters |-> [t \in EventTypes |-> 0]]
    /\ ha_writes = [a \in Adapters |-> 0]
    /\ ha_state = [a \in Adapters |-> "unwritten"]
    /\ callback_runs = [a \in Adapters |-> 0]
    /\ delivered = [a \in Adapters |-> [runs |-> 0, last |-> "none"]]
    /\ at_detach = [a \in Adapters |-> None]
    /\ late_event = FALSE
    /\ refresh = NoRefresh
    /\ info = Unread

(* ------------------------------------------------------------ __init__  *)
(* The description bound to the instance: the argument when it is truthy,  *)
(* else the class variable when the class has one, else nothing.           *)
ResolveDescription(passed, class_default) ==
    IF passed # None THEN passed
    ELSE IF class_default # None THEN class_default
    ELSE None

(* Variant: the key and the device id change places.                       *)
UniqueIdKeyFirst(did, key) == key \o "_" \o did

UniqueId(did, key) == did \o "_" \o key

__init__(a, passed, class_default, always) ==
    /\ phase[a] = "unbuilt"
    /\ LET desc == ResolveDescription(passed, class_default) IN
       IF desc = None
       THEN /\ phase' = [phase EXCEPT ![a] = "failed"]
            /\ UNCHANGED instvars
       ELSE /\ phase' = [phase EXCEPT ![a] = "constructed"]
            /\ _always_available' = [_always_available EXCEPT ![a] = always]
            /\ entity_description' = [entity_description EXCEPT ![a] = desc]
            /\ _device' = [_device EXCEPT ![a] = handle.did]
            /\ _attr_unique_id' =
                   [_attr_unique_id EXCEPT ![a] = UniqueId(handle.did, desc)]
    /\ refresh' = NoRefresh
    /\ UNCHANGED <<subvars, token_calls, hostvars, ghostvars, infovars>>

(* Spec and SpecRefresh start when the adapters of one device have been    *)
(* constructed from a passed description, each of a class that is or is    *)
(* not always available.                                                   *)
Init ==
    /\ InitShared
    /\ handle = SampleHandle
    /\ phase = [a \in Adapters |-> "constructed"]
    /\ _always_available \in [Adapters -> BOOLEAN]
    /\ entity_description =
           [a \in Adapters |-> ResolveDescription(PassedKey, None)]
    /\ _device = [a \in Adapters |-> SampleHandle.did]
    /\ _attr_unique_id =
           [a \in Adapters |-> UniqueId(SampleHandle.did, PassedKey)]

(* SpecIdentity starts before construction, with any of the handles.       *)
InitIdentity ==
    /\ InitShared
    /\ handle \in Handles
    /\ phase = [a \in Adapters |-> "unbuilt"]
    /\ _always_available = [a \in Adapters |-> FALSE]
    /\ entity_description = [a \in Adapters |-> None]
    /\ _device = [a \in Adapters |-> None]
    /\ _attr_unique_id = [a \in Adapters |-> None]

(* ---------------------------------------------------------- event bus   *)
(* device.events.subscribe(event_type, callback): the bus either rejects   *)
(* the registration (raises) or records it and returns a fresh             *)
(* cancellation token, named here by the adapter it is returned to and a   *)
(* running number.                                                         *)
TokensOf(a) == {k \in issued : k[1] = a}
NewToken(a) == <<a, Cardinality(TokensOf(a)) + 1>>

Registration(k, a, t, cb) ==
    [token |-> k, type |-> t, owner |-> a, callback |-> cb]

(* Invoking a cancellation token removes its registration from the bus.    *)
Cancel(regs, k) == {r \in regs : r.token # k}

RECURSIVE CancelAll(_, _)
CancelAll(regs, toks) ==
    IF toks = <<>> THEN regs
    ELSE CancelAll(Cancel(regs, Head(toks)), Tail(toks))

(* _subscribe calls made so far, by all adapters and for all event types.  *)
SubscribeCalls ==
    Sum([a \in Adapters |-> Sum(own_calls[a], EventTypes)], Adapters)

(* ------------------------------------------------------------ _subscribe *)
(* Variant: the token returned by the bus is dropped instead of being      *)
(* handed to async_on_remove.                                              *)
_subscribe_untracked(a, t, cb, rejects) ==
    /\ _subscribed_events' = _subscribed_events \cup {t}
    /\ own_calls' = [own_calls EXCEPT ![a][t] = @ + 1]
    /\ IF rejects
       THEN UNCHANGED <<subscribers, issued, _on_remove>>
       ELSE /\ subscribers' =
                   subscribers \cup {Registration(NewToken(a), a, t, cb)}
            /\ issued' = issued \cup {NewToken(a)}
            /\ UNCHANGED _on_remove

(* Line 106 records the event type, line 107 registers the callback and    *)
(* hands the returned token to async_on_remove.  When the bus raises,      *)
(* line 106 has already run and async_on_remove is never reached.          *)
_subscribe(a, t, cb, rejects) ==
    /\ _subscribed_events' = _subscribed_events \cup {t}
    /\ own_calls' = [own_calls EXCEPT ![a][t] = @ + 1]
    /\ IF rejects
       THEN UNCHANGED <<subscribers, issued, _on_remove>>
       ELSE /\ subscribers' =
                   subscribers \cup {Registration(NewToken(a), a, t, cb)}
            /\ issued' = issued \cup {NewToken(a)}
            /\ _on_remove' = [_on_remove EXCEPT ![a] = Append(@, NewToken(a))]

(* A subclass subscribing one of its own callbacks.                        *)
Subscribe(a, t, rejects) ==
    /\ phase[a] \in {"constructed", "attached"}
    /\ SubscribeCalls < MaxSubscribe
    /\ _subscribe(a, t, "callback", rejects)
    /\ refresh' = NoRefresh
    /\ UNCHANGED <<phase, instvars, token_calls, hostvars, ghostvars,
                   infovars>>

(* --------------------------------------------------- async_added_to_hass *)
async_added_to_hass(a, rejects) ==
    /\ phase[a] \in {"constructed", "attached"}
    /\ IF _always_available[a]
       THEN /\ ~rejects
            /\ phase' = [phase EXCEPT ![a] = "attached"]
            /\ UNCHANGED subvars
       ELSE /\ SubscribeCalls < MaxSubscribe
            /\ _subscribe(a, AvailabilityEvent, "on_available", rejects)
            /\ phase' = [phase EXCEPT ![a] =
                             IF rejects THEN @ ELSE "attached"]
    /\ refresh' = NoRefresh
    /\ UNCHANGED <<instvars, token_calls, hostvars, ghostvars, infovars>>

(* ------------------------------------------------------------- removal   *)
EntityState(a) ==
    [available |-> _attr_available[a], ha_state |-> ha_state[a],
     ha_writes |-> ha_writes[a], callback_runs |-> callback_runs[a]]

(* The host removes the entity: every callback handed to async_on_remove   *)
(* is called once and the list is emptied.                                 *)
Detach(a) ==
    /\ phase[a] = "attached"
    /\ phase' = [phase EXCEPT ![a] = "detached"]
    /\ subscribers' = CancelAll(subscribers, _on_remove[a])
    /\ token_calls' = [k \in Tokens |->
                          token_calls[k] + Occurrences(_on_remove[a], k)]
    /\ _on_remove' = [_on_remove EXCEPT ![a] = <<>>]
    /\ at_detach' = [at_detach EXCEPT ![a] = EntityState(a)]
    /\ refresh' = NoRefresh
    /\ UNCHANGED <<instvars, _subscribed_events, issued, own_calls,
                   hostvars, delivered, late_event, infovars>>

(* ------------------------------------------------------------ delivery   *)
StateOf(flag) == IF flag THEN "available" ELSE "unavailable"

(* Entity.async_write_ha_state: the host reads the entity's state now.     *)
async_write_ha_state(st) ==
    [st EXCEPT !.ha_state = StateOf(st.available), !.ha_writes = @ + 1]

(* Variant: the host is notified before the flag is assigned.              *)
on_available_write_first(st, x) ==
    [async_write_ha_state(st) EXCEPT !.available = x]

(* Lines 94-96: the closure registered by async_added_to_hass.             *)
on_available(st, x) ==
    async_write_ha_state([st EXCEPT !.available = x])

RECURSIVE Deliver(_, _, _)
Deliver(st, x, n) ==
    IF n = 0 THEN st ELSE Deliver(on_available(st, x), x, n - 1)

Targets(t) == {r \in subscribers : r.type = t}

(* The device's bus delivers one event of type t to every callback         *)
(* registered for it; x is the payload of an availability event.           *)
Publish(t, x) ==
    /\ Sum(callback_runs, Adapters) + Cardinality(Targets(t)) <= MaxDeliveries
    /\ t # AvailabilityEvent => x
    /\ LET mine(a) == {r \in Targets(t) : r.owner = a}
           handlers(a) == {r \in mine(a) : r.callback = "on_available"}
           after(a) == Deliver(EntityState(a), x, Cardinality(handlers(a)))
       IN /\ _attr_available' = [a \in Adapters |-> after(a).available]
          /\ ha_state' = [a \in Adapters |-> after(a).ha_state]
          /\ ha_writes' = [a \in Adapters |-> after(a).ha_writes]
          /\ callback_runs' = [a \in Adapters |->
                                 callback_runs[a] + Cardinality(mine(a))]
          /\ delivered' = [a \in Adapters |->
                              IF handlers(a) = {} THEN delivered[a]
                              ELSE [runs |-> delivered[a].runs
                                               + Cardinality(handlers(a)),
                                    last |-> StateOf(x)]]
    /\ late_event' = (late_event \/ (t = AvailabilityEvent
                                     /\ \E a \in Adapters :
                                            phase[a] = "detached"))
    /\ refresh' = NoRefresh
    /\ UNCHANGED <<phase, instvars, subvars, token_calls, at_detach,
                   infovars>>

(* ---------------------------------------------------------- async_update *)
(* Variant: the event types are kept in a list with one entry per         *)
(* _subscribe call, and the loop walks that list.                          *)
IterationOrdersPerCall(S) ==
    {seq \in [1..SubscribeCalls -> S] :
        \A x \in S :
            Occurrences(seq, x) = Sum([a \in Adapters |-> own_calls[a][x]],
                                      Adapters)}

(* The orders in which a for loop can walk a set.                          *)
IterationOrders(S) ==
    {seq \in [1..Cardinality(S) -> S] : \A x \in S : Occurrences(seq, x) = 1}

(* The calls request_refresh receives when the loop walks order and the    *)
(* bus raises for the event type failing: the loop ends at the raise.      *)
RefreshCalls(order, failing) ==
    LET hits == {i \in DOMAIN order : order[i] = failing} IN
    IF hits = {} THEN order
    ELSE SubSeq(order, 1, CHOOSE i \in hits : \A j \in hits : i <= j)

async_update(a, order, failing) ==
    /\ phase[a] \in {"constructed", "attached"}
    /\ refresh' = [by |-> a,
                   requested |-> RefreshCalls(order, failing),
                   raised |-> (\E i \in DOMAIN order : order[i] = failing)]
    /\ UNCHANGED <<phase, instvars, subvars, token_calls, hostvars,
                   ghostvars, infovars>>

(* ------------------------------------------------------------ Next, Spec *)
(* The operations that subscribe the adapters to the bus.                  *)
Setup ==
    \/ \E a \in Adapters, rejects \in BOOLEAN : async_added_to_hass(a, rejects)
    \/ \E a \in Adapters, t \in EventTypes, rejects \in BOOLEAN :
           Subscribe(a, t, rejects)

(* Lifecycle and delivery: what the bus delivers to the adapters between   *)
(* attach and removal.  async_update, which reads the tracked event types  *)
(* and changes no state of an adapter or of the bus, is left to            *)
(* SpecRefresh.                                                            *)
Next ==
    \/ Setup
    \/ \E a \in Adapters : Detach(a)
    \/ \E t \in EventTypes, x \in BOOLEAN : Publish(t, x)

Spec == Init /\ [][Next]_vars

(* Bookkeeping and refresh: the tracked event types and what async_update  *)
(* requests.  Deliveries and removal, which leave the tracked event types  *)
(* as they are, are left to Spec.  The bus can raise only for an event     *)
(* type it is asked to refresh.                                            *)
NextRefresh ==
    \/ Setup
    \/ \E order \in IterationOrders(_subscribed_events) :
           \E a \in Adapters, failing \in _subscribed_events \cup {None} :
               async_update(a, order, failing)

SpecRefresh == Init /\ [][NextRefresh]_vars

(* ------------------------------------------------------------ device_info *)
(* Python truthiness of an optional string.                                *)
Truthy(v) == v \notin {None, ""}

(* Variant: the nick is copied into the result without the truth test.     *)
device_info_always_name(h) ==
    LET base == [identifiers |-> {<<DOMAIN_, h.did>>},
                 manufacturer |-> "Ecovacs",
                 sw_version |-> h.fw_version,
                 serial_number |-> h.name]
        named == ("name" :> h.nick) @@ base
        modelled == IF Truthy(h.deviceName)
                    THEN ("model" :> h.deviceName) @@ named ELSE named
    IN IF Truthy(h.mac)
       THEN ("connections" :> {<<CONNECTION_NETWORK_MAC, h.mac>>}) @@ modelled
       ELSE modelled

device_info(h) ==
    LET base == [identifiers |-> {<<DOMAIN_, h.did>>},
                 manufacturer |-> "Ecovacs",
                 sw_version |-> h.fw_version,
                 serial_number |-> h.name]
        named == IF Truthy(h.nick) THEN ("name" :> h.nick) @@ base ELSE base
        modelled == IF Truthy(h.deviceName)
                    THEN ("model" :> h.deviceName) @@ named ELSE named
    IN IF Truthy(h.mac)
       THEN ("connections" :> {<<CONNECTION_NETWORK_MAC, h.mac>>}) @@ modelled
       ELSE modelled

ReadDeviceInfo ==
    /\ info = Unread
    /\ info' = device_info(handle)
    /\ UNCHANGED <<phase, instvars, subvars, token_calls, hostvars, ghostvars,
                   refresh, handle>>

(* Construction and metadata of the adapters of any of the handles.        *)
NextIdentity ==
    \/ ReadDeviceInfo
    \/ \E a \in Adapters, passed \in {None, PassedKey},
          class_default \in {None, ClassKey}, always \in BOOLEAN :
           __init__(a, passed, class_default, always)

SpecIdentity == InitIdentity /\ [][NextIdentity]_vars

(* ================================================================ claims *)
Built == {"constructed", "attached", "detached"}

AvailabilityHandlers(a) ==
    {r \in subscribers : r.owner = a /\ r.type = AvailabilityEvent
                         /\ r.callback = "on_available"}

Requested(r) == {r.requested[i] : i \in DOMAIN r.requested}

OwnEvents(a) == {t \in EventTypes : own_calls[a][t] > 0}

(* A _subscribe call, from a subclass or from async_added_to_hass, that    *)
(* the bus rejected.                                                       *)
RejectedSubscribe ==
    /\ own_calls' # own_calls
    /\ subscribers' = subscribers
    /\ \/ \E a \in Adapters, t \in EventTypes : Subscribe(a, t, TRUE)
       \/ \E a \in Adapters : async_added_to_hass(a, TRUE)

Constructed(a, passed, class_default, always) ==
    /\ phase'[a] # phase[a]
    /\ phase[a] = "unbuilt"
    /\ __init__(a, passed, class_default, always)

(* C1: every registration a _subscribe call made on the bus has exactly    *)
(* one cancellation token in its adapter's teardown sequence, no token is  *)
(* ever invoked twice, and once an adapter is detached every token issued  *)
(* to it has been invoked exactly once and none of its callbacks is still  *)
(* registered on the bus.                                                  *)
C1_SymmetricTeardown ==
    /\ \A k \in Tokens : token_calls[k] <= 1
    /\ \A r \in subscribers : Occurrences(_on_remove[r.owner], r.token) = 1
    /\ \A a \in Adapters :
           /\ \A i \in DOMAIN _on_remove[a] : _on_remove[a][i] \in TokensOf(a)
           /\ phase[a] = "detached" =>
                  /\ \A k \in TokensOf(a) : token_calls[k] = 1
                  /\ \A r \in subscribers : r.owner # a

C1_Witness ==
    \E a \in Adapters :
        /\ phase[a] = "detached"
        /\ Cardinality(TokensOf(a)) >= 2
        /\ \A k \in TokensOf(a) : token_calls[k] = 1

(* C2: after an adapter is detached, no published event changes its        *)
(* state: its availability flag, the state last written to the host, the   *)
(* number of host notifications and the number of callback runs stay what  *)
(* they were at detach.                                                    *)
C2_NoDeliveryAfterDetach ==
    \A a \in Adapters : phase[a] = "detached" => EntityState(a) = at_detach[a]

C2_Witness ==
    \E a \in Adapters :
        /\ phase[a] = "detached"
        /\ \A b \in Adapters \ {a} : phase[b] = "attached"
        /\ ~_always_available[a]
        /\ late_event
        /\ ha_writes[a] >= 1

(* C3: every attached adapter that is not always-available has an         *)
(* availability handler registered; each delivery of an availability      *)
(* event to a handler notifies the host exactly once, and after a delivery *)
(* of value x the flag is x and x is what the host last read (the flag is  *)
(* assigned before the host is notified); an always-available adapter has  *)
(* no handler, and its flag never changes.                                 *)
C3_AvailabilityDelivery ==
    \A a \in Adapters :
        /\ (phase[a] = "attached" /\ ~_always_available[a])
               => AvailabilityHandlers(a) # {}
        /\ ha_writes[a] = delivered[a].runs
        /\ delivered[a].runs >= 1 =>
               /\ StateOf(_attr_available[a]) = delivered[a].last
               /\ ha_state[a] = delivered[a].last
        /\ _always_available[a] =>
               /\ AvailabilityHandlers(a) = {}
               /\ delivered[a].runs = 0
               /\ _attr_available[a]

C3_Witness ==
    \E a, b \in Adapters :
        /\ phase[a] = "attached" /\ ~_always_available[a]
        /\ ~_attr_available[a] /\ ha_state[a] = "unavailable"
        /\ ha_writes[a] = 1
        /\ phase[b] = "attached" /\ _always_available[b]
        /\ ha_writes[b] = 0

(* In C4 to C6, refresh holds the calls of the async_update that has just *)
(* run, by adapter refresh.by, or NoRefresh after any other operation:     *)
(* while it is set, own_calls and _subscribed_events are those the update  *)
(* ran on.                                                                 *)

(* C4: async_update on adapter A requests exactly the event types A itself *)
(* subscribed, never one that only another adapter subscribed.             *)
C4_PerEntityRegistry ==
    refresh.by # 0 =>
        /\ Requested(refresh) \subseteq OwnEvents(refresh.by)
        /\ ~refresh.raised => Requested(refresh) = OwnEvents(refresh.by)

(* C5: one async_update issues at most one request_refresh per event type, *)
(* and when no request raises, exactly one for every event type the        *)
(* adapter subscribed, however many _subscribe calls named that type.      *)
C5_OneRefreshPerType ==
    refresh.by # 0 =>
        /\ \A t \in EventTypes : Occurrences(refresh.requested, t) <= 1
        /\ ~refresh.raised =>
               \A t \in OwnEvents(refresh.by) :
                   Occurrences(refresh.requested, t) = 1

C5_Witness ==
    /\ refresh.by # 0
    /\ ~refresh.raised
    /\ \E t \in EventTypes :
           /\ own_calls[refresh.by][t] >= 2
           /\ Occurrences(refresh.requested, t) = 1

(* C6: one async_update requests a refresh for every tracked event type,   *)
(* also when the request for one of them raises.                           *)
C6_RefreshIsolated ==
    refresh.by # 0 => Requested(refresh) = _subscribed_events

(* C7: __init__ without a passed description and without a class default   *)
(* fails and stores neither a device nor a unique id; with a description   *)
(* from either source it succeeds and the unique id is the device id, an   *)
(* underscore and the key of the description in use (the passed one when   *)
(* both exist).                                                            *)
C7_Construct ==
    [][\A a \in Adapters, passed \in {None, PassedKey},
          class_default \in {None, ClassKey}, always \in BOOLEAN :
          Constructed(a, passed, class_default, always) =>
              IF passed = None /\ class_default = None
              THEN /\ phase'[a] = "failed"
                   /\ _device'[a] = None
                   /\ _attr_unique_id'[a] = None
              ELSE /\ phase'[a] = "constructed"
                   /\ _device'[a] = handle.did
                   /\ _attr_unique_id'[a] =
                          handle.did \o "_" \o
                              (IF passed # None THEN passed
                               ELSE class_default)]_vars

C7_Witness ==
    \E a, b \in Adapters :
        /\ phase[a] = "failed" /\ _attr_unique_id[a] = None
        /\ phase[b] \in Built /\ _attr_unique_id[b] = "did2_state"

(* C8: however often async_added_to_hass runs on an adapter, the adapter   *)
(* has at most one availability handler registered on the bus.             *)
C8_AttachIdempotent ==
    \A a \in Adapters : Cardinality(AvailabilityHandlers(a)) <= 1

(* C9 as stated: each of the six metadata fields is present exactly when   *)
(* the device has a value for it, and then carries that value.             *)
MetadataFields ==
    {"manufacturer", "sw_version", "serial_number", "name", "model",
     "connections"}

OptionalFields == {"name", "model", "connections"}

DeviceValue(h, f) ==
    CASE f = "manufacturer" -> None
      [] f = "sw_version" -> h.fw_version
      [] f = "serial_number" -> h.name
      [] f = "name" -> h.nick
      [] f = "model" -> h.deviceName
      [] f = "connections" -> h.mac

Carried(f, v) ==
    IF f = "connections" THEN {<<CONNECTION_NETWORK_MAC, v>>} ELSE v

InfoRead == "unread" \notin DOMAIN info

FieldFollowsDevice(f) ==
    /\ f \in DOMAIN info <=> Truthy(DeviceValue(handle, f))
    /\ f \in DOMAIN info => info[f] = Carried(f, DeviceValue(handle, f))

C10_RejectedSubscribeLeavesNoTrace ==
    [][RejectedSubscribe =>
          /\ _subscribed_events' = _subscribed_events
          /\ _on_remove' = _on_remove]_vars
====
